---- MODULE Spec2Model ----
(***************************************************************************)
(* Model of RemedianBlock<T> (src/src/lib.rs): a fixed-shape matrix of     *)
(* batches, a sample counter and a terminal locked flag, with the ingest   *)
(* operation add_sample_point and the queries median / median_or_default.  *)
(*                                                                         *)
(* T is modelled as a small range of integers (a totally ordered type).    *)
(* Levels are indexed 0 .. remedian_exponent-1 as in the code; a batch is  *)
(* a sequence, and At(batch, k) is the code's zero-based batch[k].         *)
(* Option<T> is modelled as a sequence: None is <<>>, Some(v) is <<v>>.    *)
(***************************************************************************)
EXTENDS Integers, Sequences, FiniteSets, TLC

\* ---------------------------------------------------------------- bounds
MaxBase == 3          \* explicit configurations use base 1 .. MaxBase
MaxExp == 3           \* explicit configurations use exponent 1 .. MaxExp
MaxCap == 27          \* ... with capacity base^exponent up to MaxCap
MaxVal == 2           \* sample points are drawn from 0 .. MaxVal
Extra == 2            \* calls made to a block beyond its capacity
MaxDefaultFeed == 3   \* calls made to a block built by default()
MaxStreamCap == 9     \* capacity of the blocks whose whole stream is recorded

\* ---------------------------------------------------- program constants
DefaultBase == 11
DefaultExponent == 10
DefaultT == 0
ScenarioBase == 5
ScenarioExponent == 4
ScenarioMedian == 445

Values == 0 .. MaxVal

VARIABLES remedian_base, remedian_exponent, count, remedian_scratch, locked,
          op, sample_point, ret, out, fed, accepted, pass, stream

state == <<remedian_base, remedian_exponent, count, remedian_scratch, locked>>
vars == <<remedian_base, remedian_exponent, count, remedian_scratch, locked,
          op, sample_point, ret, out, fed, accepted, pass, stream>>

\* ------------------------------------------------------------- helpers
None == <<>>
Some(v) == <<v>>

At(s, k) == s[k + 1]

RECURSIVE Pow(_, _)
Pow(b, i) == IF i = 0 THEN 1 ELSE b * Pow(b, i - 1)

Min(a, b) == IF a < b THEN a ELSE b

\* a.partial_cmp(b).unwrap_or(Ordering::Equal) on the value type
cmp(a, b) == IF a < b THEN "Less" ELSE IF a > b THEN "Greater" ELSE "Equal"

\* slice::sort_by is a stable sort: an element is placed after every
\* element that does not compare Greater than it.
RECURSIVE insert_by(_, _)
insert_by(s, x) ==
    IF s = <<>> THEN <<x>>
    ELSE IF cmp(Head(s), x) = "Greater" THEN <<x>> \o s
    ELSE <<Head(s)>> \o insert_by(Tail(s), x)

RECURSIVE sort_by(_)
sort_by(s) ==
    IF s = <<>> THEN <<>>
    ELSE insert_by(sort_by(SubSeq(s, 1, Len(s) - 1)), s[Len(s)])

\* the same stable sort on (value, weight) pairs, compared on the value
RECURSIVE insert_weighted(_, _)
insert_weighted(s, x) ==
    IF s = <<>> THEN <<x>>
    ELSE IF cmp(Head(s)[1], x[1]) = "Greater" THEN <<x>> \o s
    ELSE <<Head(s)>> \o insert_weighted(Tail(s), x)

RECURSIVE sort_weighted(_)
sort_weighted(s) ==
    IF s = <<>> THEN <<>>
    ELSE insert_weighted(sort_weighted(SubSeq(s, 1, Len(s) - 1)), s[Len(s)])

\* ------------------------------------------------------- construction
new_swapped(b, e) ==
    [remedian_base |-> b, remedian_exponent |-> e, count |-> 0,
     remedian_scratch |-> [i \in 0 .. (b - 1) |-> <<>>], locked |-> FALSE]

new(b, e) ==
    [remedian_base |-> b, remedian_exponent |-> e, count |-> 0,
     remedian_scratch |-> [i \in 0 .. (e - 1) |-> <<>>], locked |-> FALSE]

default == new(DefaultBase, DefaultExponent)

\* ---------------------------------------------------------- ingestion
\* batch.len() == self.remedian_base
batch_full_late(batch) == Len(batch) = remedian_base + 1

batch_full_odd(batch) == Len(batch) = 2 * (remedian_base \div 2) + 1

batch_full(batch) == Len(batch) = remedian_base

\* i == self.remedian_exponent - 1
is_last_early(i) == i = 0

is_last(i) == i = remedian_exponent - 1

\* last batch full: sort it in place (the caller sets locked)
finalize_unsorted(sc, i) == sc

finalize(sc, i) == [sc EXCEPT ![i] = sort_by(@)]

\* non-last batch full: sort, take the intermediate median, clear, carry
carry_unsorted(sc, i) ==
    LET intermediate_median == At(sc[i], remedian_base \div 2)
    IN  [sc EXCEPT ![i] = <<>>, ![i + 1] = Append(@, intermediate_median)]

carry_mean(sc, i) ==
    LET sorted == sort_by(sc[i])
        intermediate_median ==
            IF remedian_base % 2 = 1 THEN At(sorted, remedian_base \div 2)
            ELSE (At(sorted, (remedian_base \div 2) - 1)
                  + At(sorted, remedian_base \div 2)) \div 2
    IN  [sc EXCEPT ![i] = <<>>, ![i + 1] = Append(@, intermediate_median)]

carry_no_clear(sc, i) ==
    LET sorted == sort_by(sc[i])
        intermediate_median == At(sorted, remedian_base \div 2)
    IN  [sc EXCEPT ![i] = sorted, ![i + 1] = Append(@, intermediate_median)]

carry(sc, i) ==
    LET sorted == sort_by(sc[i])
        intermediate_median == At(sorted, remedian_base \div 2)
    IN  [sc EXCEPT ![i] = <<>>, ![i + 1] = Append(@, intermediate_median)]

\* for i in 0..self.remedian_exponent { ... }: tr collects the matrix as it
\* stands after the push and after each iteration of the loop body.
RECURSIVE ripple_sorting(_, _, _, _)
ripple_sorting(sc, lk, i, tr) ==
    IF i >= remedian_exponent
    THEN [remedian_scratch |-> sc, locked |-> lk, pass |-> tr]
    ELSE LET st == [sc EXCEPT ![i] = sort_by(@)]
         IN  IF batch_full(st[i])
             THEN IF is_last(i)
                  THEN ripple_sorting(st, TRUE, i + 1, Append(tr, st))
                  ELSE LET sc2 == carry(st, i)
                       IN  ripple_sorting(sc2, lk, i + 1, Append(tr, sc2))
             ELSE [remedian_scratch |-> st, locked |-> lk, pass |-> tr]

RECURSIVE ripple(_, _, _, _)
ripple(sc, lk, i, tr) ==
    IF i >= remedian_exponent
    THEN [remedian_scratch |-> sc, locked |-> lk, pass |-> tr]
    ELSE IF batch_full(sc[i])
         THEN IF is_last(i)
              THEN LET sc2 == finalize(sc, i)
                   IN  ripple(sc2, TRUE, i + 1, Append(tr, sc2))
              ELSE LET sc2 == carry(sc, i)
                   IN  ripple(sc2, lk, i + 1, Append(tr, sc2))
         ELSE [remedian_scratch |-> sc, locked |-> lk, pass |-> tr]

\* self.remedian_scratch[0].push(sample_point)
push_last(sc, v) == [sc EXCEPT ![remedian_exponent - 1] = Append(@, v)]

push(sc, v) == [sc EXCEPT ![0] = Append(@, v)]

\* the branch taken when !self.locked
add_accept(v) ==
    LET pushed == push(remedian_scratch, v)
        r == ripple(pushed, locked, 0, <<pushed>>)
    IN  /\ count' = count + 1
        /\ remedian_scratch' = r.remedian_scratch
        /\ locked' = r.locked
        /\ pass' = r.pass
        /\ ret' = TRUE

\* the branch taken when self.locked
add_noop_counting ==
    /\ count' = count + 1
    /\ UNCHANGED <<remedian_scratch, locked>>
    /\ pass' = <<>>
    /\ ret' = FALSE

add_noop_true ==
    /\ UNCHANGED <<count, remedian_scratch, locked>>
    /\ pass' = <<>>
    /\ ret' = TRUE

add_noop ==
    /\ UNCHANGED <<count, remedian_scratch, locked>>
    /\ pass' = <<>>
    /\ ret' = FALSE

\* the (base, exponent) pairs passed to new
Configs ==
    {cfg \in (1 .. MaxBase) \X (1 .. MaxExp) : Pow(cfg[1], cfg[2]) <= MaxCap}

\* number of calls the model makes to one block
FeedLimit ==
    IF <<remedian_base, remedian_exponent>> \in Configs
    THEN Pow(remedian_base, remedian_exponent) + Extra
    ELSE MaxDefaultFeed

\* one call; out holds the result of the last operation when it was a query
add_sample_point(v) ==
    /\ IF ~locked THEN add_accept(v) ELSE add_noop
    /\ op' = "add_sample_point"
    /\ sample_point' = Some(v)
    /\ fed' = fed + 1
    /\ accepted' = IF ret' THEN accepted + 1 ELSE accepted
    /\ out' = None
    /\ UNCHANGED <<remedian_base, remedian_exponent>>

\* a caller feeding arbitrary values, as the loops of the tests do
feed(v) ==
    /\ fed < FeedLimit
    /\ add_sample_point(v)
    /\ UNCHANGED stream

\* -------------------------------------------------------------- query
\* (self.remedian_base as u64).pow(i as u32)
weight_product(i) == remedian_base * i

weight(i) == Pow(remedian_base, i)

RECURSIVE weighted_values(_)
weighted_values(i) ==
    IF i >= remedian_exponent THEN <<>>
    ELSE [k \in 1 .. Len(remedian_scratch[i]) |->
             <<remedian_scratch[i][k], weight(i)>>] \o weighted_values(i + 1)

RECURSIVE walk(_, _, _)
walk(wv, k, running_weight) ==
    IF k > Len(wv) THEN None
    ELSE LET rw == running_weight + wv[k][2]
         IN  IF rw >= (count \div 2) THEN Some(wv[k][1])
             ELSE walk(wv, k + 1, rw)

median ==
    IF locked
    THEN Some(At(remedian_scratch[remedian_exponent - 1], remedian_base \div 2))
    ELSE walk(sort_weighted(weighted_values(0)), 1, 0)

\* self.median().unwrap_or_default()
median_or_default_always == DefaultT

median_or_default == IF median = None THEN DefaultT ELSE median[1]

median_call ==
    /\ op' = "median"
    /\ out' = median
    /\ UNCHANGED <<state, sample_point, ret, fed, accepted, pass, stream>>

median_or_default_call ==
    /\ op' = "median_or_default"
    /\ out' = Some(median_or_default)
    /\ UNCHANGED <<state, sample_point, ret, fed, accepted, pass, stream>>

\* ------------------------------------------------------ specification

InitWith(blk, how) ==
    /\ remedian_base = blk.remedian_base
    /\ remedian_exponent = blk.remedian_exponent
    /\ count = blk.count
    /\ remedian_scratch = blk.remedian_scratch
    /\ locked = blk.locked
    /\ op = how
    /\ sample_point = None
    /\ ret = FALSE
    /\ out = None
    /\ fed = 0
    /\ accepted = 0
    /\ pass = <<>>
    /\ stream = <<>>

Init ==
    \/ \E cfg \in Configs : InitWith(new(cfg[1], cfg[2]), "new")
    \/ InitWith(default, "default")

Next ==
    \/ \E v \in Values : feed(v)
    \/ median_call
    \/ median_or_default_call

Spec == Init /\ [][Next]_vars

\* ----------------------------------------- the stream of the examples
\* DATA of examples/full.rs and examples/minimal.rs, each value times ten
DATA ==
    <<186, 831, 215, 214, 634, 641, 46, 927, 311, 948, 24, 445, 700, 171, 610>>

\* for data_point in DATA { remedian.add_sample_point(data_point); ... }
feed_data ==
    /\ fed < Len(DATA)
    /\ add_sample_point(DATA[fed + 1])
    /\ stream' = IF ret' THEN Append(stream, DATA[fed + 1]) ELSE stream

\* the block of full.rs, the default block of minimal.rs, and the blocks of
\* the other configurations, all fed DATA in order
InitScenario ==
    \/ InitWith(new(ScenarioBase, ScenarioExponent), "new")
    \/ Init

NextScenario ==
    \/ feed_data
    \/ median_call
    \/ median_or_default_call

SpecScenario == InitScenario /\ [][NextScenario]_vars

\* ------------------------------------------------- a recorded stream
\* a caller that keeps the values the block accepted, in arrival order,
\* and offers one value more once the block is full
feed_stream(v) ==
    /\ fed < Pow(remedian_base, remedian_exponent) + 1
    /\ add_sample_point(v)
    /\ stream' = IF ret' THEN Append(stream, v) ELSE stream

InitStream ==
    \E cfg \in Configs :
        /\ Pow(cfg[1], cfg[2]) <= MaxStreamCap
        /\ InitWith(new(cfg[1], cfg[2]), "new")

NextStream ==
    \/ \E v \in Values : feed_stream(v)
    \/ median_call
    \/ median_or_default_call

SpecStream == InitStream /\ [][NextStream]_vars

\* ------------------------------------------------- derived quantities
\* base^exponent, saturated just above lim so that the capacity of the
\* default block (11^10) is never computed in full
RECURSIVE PowUpTo(_, _, _)
PowUpTo(b, i, lim) ==
    IF i = 0 THEN 1 ELSE Min(b * PowUpTo(b, i - 1, lim), lim + 1)

Horizon == MaxCap + Extra + MaxDefaultFeed

Capacity == PowUpTo(remedian_base, remedian_exponent, Horizon)

LastLevel == remedian_exponent - 1

RECURSIVE HeldFrom(_, _)
HeldFrom(sc, i) ==
    IF i >= remedian_exponent THEN 0 ELSE Len(sc[i]) + HeldFrom(sc, i + 1)

\* number of values held across all levels of a scratch matrix
Held(sc) == HeldFrom(sc, 0)

\* the sequence of the sorted-index-base/2 elements of the consecutive
\* chunks of b elements of xs (Len(xs) a multiple of b)
RECURSIVE ChunkMedians(_, _)
ChunkMedians(xs, b) ==
    IF Len(xs) < b THEN <<>>
    ELSE <<At(sort_by(SubSeq(xs, 1, b)), b \div 2)>>
             \o ChunkMedians(SubSeq(xs, b + 1, Len(xs)), b)

\* the recursive remedian: chunk and replace, n times
RECURSIVE Remedian(_, _, _)
Remedian(xs, b, n) ==
    IF n = 0 THEN xs ELSE Remedian(ChunkMedians(xs, b), b, n - 1)

NonDecreasing(s) == \A k \in 1 .. (Len(s) - 1) : s[k] <= s[k + 1]

CountLE(s, m) == Cardinality({k \in 1 .. Len(s) : s[k] <= m})

CountGE(s, m) == Cardinality({k \in 1 .. Len(s) : s[k] >= m})

\* m is a median of s: at least half of s lies on either side of it
ExactMedian(s, m) ==
    /\ 2 * CountLE(s, m) >= Len(s) + 1
    /\ 2 * CountGE(s, m) >= Len(s) + 1

\* ------------------------------------------------------------- claims
\* C1: capacity invariant. After N calls to add_sample_point on a fresh
\* block, locked() holds exactly when N >= base^exponent, and count() is
\* min(N, base^exponent).
C1_Capacity ==
    /\ locked <=> (fed >= Capacity)
    /\ count = Min(fed, Capacity)

\* the block has just taken its base^exponent-th value, several levels deep
C1_Witness ==
    /\ remedian_base >= 2
    /\ remedian_exponent >= 2
    /\ fed = Capacity
    /\ locked
    /\ count = Capacity

\* C2: no-op on locked. A call to add_sample_point on a locked block
\* returns false and leaves count(), locked(), median() and every level
\* as they were.
C2_NoOpOnLocked ==
    [][(locked /\ fed' = fed + 1) =>
          /\ ret' = FALSE
          /\ count' = count
          /\ locked' = locked
          /\ median' = median
          /\ remedian_scratch' = remedian_scratch]_vars

\* a value different from the locked median was offered and turned down
C2_Witness ==
    /\ locked
    /\ op = "add_sample_point"
    /\ ret = FALSE
    /\ fed > accepted
    /\ sample_point # median

\* C3: bounded memory. The number of values held across all levels never
\* exceeds base * exponent, between calls and at every step of the
\* ripple-carry pass of a call.
C3_BoundedMemory ==
    /\ Held(remedian_scratch) <= remedian_base * remedian_exponent
    /\ \A k \in 1 .. Len(pass) :
          Held(pass[k]) <= remedian_base * remedian_exponent

\* the fullest point of a pass: level 0 has just reached base while every
\* other level holds base - 1 values, and the carry cascades to the end
C3_Witness ==
    /\ remedian_base >= 2
    /\ remedian_exponent >= 2
    /\ Len(pass) = remedian_exponent + 1
    /\ Held(pass[1]) = remedian_base * remedian_exponent - (remedian_exponent - 1)

\* C4: add_sample_point returns true exactly when the block was not locked
\* at the moment of the call; the call that locks the block returns true.
C4_ReturnValue ==
    [][(fed' = fed + 1) =>
          /\ ret' <=> ~locked
          /\ (~locked /\ locked') => ret']_vars

\* the call that locked the block has returned true
C4_Witness ==
    /\ op = "add_sample_point"
    /\ locked
    /\ ret = TRUE
    /\ fed = accepted

\* C5: median() is absent exactly when count() is 0.
C5_MedianAbsence == (median = None) <=> (count = 0)

\* an unlocked block holding values on two levels reports a median
C5_Witness ==
    /\ ~locked
    /\ remedian_exponent >= 2
    /\ Len(remedian_scratch[0]) >= 1
    /\ Len(remedian_scratch[1]) >= 1
    /\ median # None

\* C6: in a locked block the final level holds exactly base values in
\* non-decreasing order, median() is its element at index base/2, and for
\* an odd base that element is the exact median of the final batch.
C6_LockedMedian ==
    locked =>
        LET final == remedian_scratch[LastLevel]
        IN  /\ Len(final) = remedian_base
            /\ NonDecreasing(final)
            /\ median = Some(At(final, remedian_base \div 2))
            /\ (remedian_base % 2 = 1) => ExactMedian(final, median[1])

\* the locking call found the final batch out of order and sorted it
C6_Witness ==
    /\ locked
    /\ remedian_base = 3
    /\ Len(pass) >= 2
    /\ ~NonDecreasing(pass[1][LastLevel])
    /\ op = "median"
    /\ out = Some(At(remedian_scratch[LastLevel], 1))

\* C7: singleton law. For base > 1, after exactly one value v: median() is
\* v, median_or_default() is v, count() is 1 and the block is not locked.
C7_Singleton ==
    (fed = 1 /\ remedian_base > 1) =>
        /\ median = sample_point
        /\ median_or_default = sample_point[1]
        /\ count = 1
        /\ ~locked

\* one non-default value went into a default() block and was read back
C7_Witness ==
    /\ fed = 1
    /\ remedian_base = DefaultBase
    /\ sample_point = Some(MaxVal)
    /\ op = "median_or_default"
    /\ out = Some(MaxVal)

\* C8: absence law. A block fresh from new(base, exponent) or default()
\* (base 11, exponent 10) has count() 0, is not locked, has exactly
\* exponent levels, all empty, an absent median() and the type's default
\* as median_or_default().
C8_InitialState ==
    (fed = 0) =>
        /\ count = 0
        /\ ~locked
        /\ DOMAIN remedian_scratch = 0 .. (remedian_exponent - 1)
        /\ \A i \in DOMAIN remedian_scratch : remedian_scratch[i] = <<>>
        /\ median = None
        /\ median_or_default = DefaultT
        /\ (op = "default") =>
              (remedian_base = DefaultBase /\ remedian_exponent = DefaultExponent)

\* a block built by default() was queried before any value was fed
C8_Witness ==
    /\ fed = 0
    /\ remedian_base = 11
    /\ Cardinality(DOMAIN remedian_scratch) = 10
    /\ op = "median_or_default"
    /\ out = Some(DefaultT)

\* C9: lock is terminal. locked goes from false to true only in an
\* add_sample_point call in which the final level reaches base elements,
\* and once true it stays true through every later operation.
C9_LockTerminal ==
    [][/\ locked => locked'
       /\ (~locked /\ locked') =>
             /\ fed' = fed + 1
             /\ ret'
             /\ Len(remedian_scratch[LastLevel]) < remedian_base
             /\ Len(remedian_scratch'[LastLevel]) = remedian_base]_vars

\* a locked block is still locked after a refused call and a query
C9_Witness ==
    /\ locked
    /\ fed > accepted
    /\ op = "median"

\* C10 as stated: count() equals the number of values fed to the block,
\* the values fed after the block locked included.
C10_CountsAllFed == count = fed

\* C10 amended: count() equals the number of values the block accepted;
\* a value is turned down only by a locked block, whose count() stays at
\* base^exponent.
C10_CountsAccepted ==
    /\ count = accepted
    /\ (fed > accepted) => (locked /\ count = Capacity /\ count < fed)

\* values were fed after the lock and count() did not follow
C10_Witness ==
    /\ locked
    /\ fed = count + Extra
    /\ accepted = count

\* C11: the example stream. Fed in order into new(5, 4), each of the 15
\* calls returns true, count() reads k after the k-th value, the block is
\* never locked, and the median after the 15th value is within tolerance
\* of the exact median 44.5 (the walk returns 445 itself).
C11_Scenario ==
    (remedian_base = ScenarioBase /\ remedian_exponent = ScenarioExponent) =>
        /\ count = fed
        /\ accepted = fed
        /\ (fed >= 1) => ret
        /\ ~locked
        /\ (fed = Len(DATA)) =>
              /\ median = Some(ScenarioMedian)
              /\ median_or_default = ScenarioMedian

\* full.rs has fed all of DATA and read the median out
C11_Witness ==
    /\ remedian_base = ScenarioBase
    /\ remedian_exponent = ScenarioExponent
    /\ fed = Len(DATA)
    /\ remedian_scratch[1] = <<215, 641, 445>>
    /\ op = "median_or_default"
    /\ out = Some(ScenarioMedian)

\* C12: an even base is accepted. new(base, exponent) with an even base
\* gives the usual initial state, and the structure is as for an odd
\* base: the block locks after exactly base^exponent accepted values, no
\* level ever holds more than base values, and the locked median() is the
\* element at index base/2 of the sorted final batch.
C12_EvenBase ==
    (remedian_base % 2 = 0) =>
        /\ (fed = 0) =>
              <<count, remedian_scratch, locked>> =
                  <<0, [i \in 0 .. (remedian_exponent - 1) |-> <<>>], FALSE>>
        /\ locked <=> (accepted = Capacity)
        /\ accepted <= Capacity
        /\ \A i \in DOMAIN remedian_scratch :
              /\ Len(remedian_scratch[i]) <= remedian_base
              /\ \A k \in 1 .. Len(pass) : Len(pass[k][i]) <= remedian_base
        /\ locked =>
              /\ NonDecreasing(remedian_scratch[LastLevel])
              /\ median = Some(remedian_scratch[LastLevel][(remedian_base \div 2) + 1])

\* a block of base 2 and three levels has locked on its 8th value
C12_Witness ==
    /\ remedian_base = 2
    /\ remedian_exponent = 3
    /\ locked
    /\ accepted = 8
    /\ Len(pass) = 4
    /\ remedian_scratch[2][1] < remedian_scratch[2][2]

\* C13: locked result equals the recursive remedian. For odd base, once
\* the block has accepted x_1 .. x_n, n = base^exponent, median() is the
\* single value left after replacing, exponent times, every consecutive
\* chunk of base elements by its sorted element at index base/2.
C13_RecursiveRemedian ==
    (locked /\ remedian_base % 2 = 1) =>
        /\ Len(stream) = Capacity
        /\ Remedian(stream, remedian_base, remedian_exponent) = median

\* nine values went through two levels of base 3, and the remedian is
\* not the value at the middle of the stream as it arrived
C13_Witness ==
    /\ locked
    /\ remedian_base = 3
    /\ remedian_exponent = 2
    /\ Len(stream) = 9
    /\ median # Some(stream[5])
    /\ op = "median"
    /\ out = median

\* C14: level sizes. No level ever holds more than base values, at any
\* step of a pass; between operations every non-final level holds fewer
\* than base values; the final level holds exactly base values exactly
\* when the block is locked, and a locked block's final level stays as
\* it is.
C14_LevelSizes ==
    [][/\ \A i \in DOMAIN remedian_scratch' :
             /\ Len(remedian_scratch'[i]) <= remedian_base'
             /\ \A k \in 1 .. Len(pass') : Len(pass'[k][i]) <= remedian_base'
             /\ (i # LastLevel') => Len(remedian_scratch'[i]) < remedian_base'
       /\ locked' <=> (Len(remedian_scratch'[LastLevel']) = remedian_base')
       /\ locked =>
             remedian_scratch'[LastLevel] = remedian_scratch[LastLevel]]_vars

\* level 0 reached base during the last call and was cleared within it
C14_Witness ==
    /\ remedian_base >= 2
    /\ remedian_exponent >= 2
    /\ ~locked
    /\ Len(pass) >= 2
    /\ Len(pass[1][0]) = remedian_base
    /\ remedian_scratch[0] = <<>>
    /\ Len(remedian_scratch[1]) >= 1

\* C15: levels are populated left to right. A step leaves level i+1
\* changed and non-empty only if it is an accepted add_sample_point call
\* in whose pass level i reached base elements, was cleared, and handed
\* its intermediate median to level i+1; and level i+1 is non-empty only
\* when at least base^(i+1) values have been accepted, i.e. level i has
\* filled and carried before.
C15_LeftToRight ==
    [][\A i \in 0 .. (remedian_exponent - 2) :
          /\ (remedian_scratch'[i + 1] # <<>>) =>
                count' >= PowUpTo(remedian_base, i + 1, Horizon)
          /\ (/\ remedian_scratch'[i + 1] # remedian_scratch[i + 1]
              /\ remedian_scratch'[i + 1] # <<>>) =>
                /\ fed' = fed + 1
                /\ ret'
                /\ \E k \in 1 .. (Len(pass') - 1) :
                      /\ Len(pass'[k][i]) = remedian_base
                      /\ pass'[k + 1][i] = <<>>
                      /\ pass'[k + 1][i + 1] =
                            Append(pass'[k][i + 1],
                                   At(sort_by(pass'[k][i]), remedian_base \div 2))
      ]_vars

\* level 2 holds a value that came up from level 1, which had filled with
\* values that came up from level 0
C15_Witness ==
    /\ remedian_base = 3
    /\ remedian_exponent = 3
    /\ Len(pass) = 3
    /\ Len(pass[1][0]) = 3
    /\ Len(pass[2][1]) = 3
    /\ Len(remedian_scratch[2]) = 2
    /\ remedian_scratch[1] = <<>>
    /\ remedian_scratch[0] = <<>>

\* the level at which the pass of a call on the current state stops: the
\* first level that the value it receives does not fill (exponent if all
\* levels fill)
RECURSIVE StopLevel(_)
StopLevel(i) ==
    IF i >= remedian_exponent THEN remedian_exponent
    ELSE IF Len(remedian_scratch[i]) + 1 # remedian_base THEN i
    ELSE StopLevel(i + 1)

\* C16: ripple-carry frame. In a call on an unlocked block, level j >= 1
\* is modified only if every level below it reached base elements in that
\* call; the level where the pass stops keeps its contents in place, with
\* the one value it received at the end (not sorted, not cleared); the
\* levels above it are unchanged.
C16_RippleFrame ==
    [][(~locked /\ fed' = fed + 1) =>
          LET s == StopLevel(0)
          IN  /\ \A j \in 1 .. (remedian_exponent - 1) :
                    (remedian_scratch'[j] # remedian_scratch[j]) =>
                        \A i \in 0 .. (j - 1) :
                            /\ Len(remedian_scratch[i]) + 1 = remedian_base
                            /\ \E k \in 1 .. Len(pass') :
                                  Len(pass'[k][i]) = remedian_base
              /\ (s < remedian_exponent) =>
                    /\ Len(remedian_scratch'[s]) = Len(remedian_scratch[s]) + 1
                    /\ Len(remedian_scratch'[s]) < remedian_base
                    /\ SubSeq(remedian_scratch'[s], 1, Len(remedian_scratch[s]))
                          = remedian_scratch[s]
                    /\ (s = 0) =>
                          remedian_scratch'[0] =
                              Append(remedian_scratch[0], sample_point'[1])
              /\ \A j \in (s + 1) .. (remedian_exponent - 1) :
                    remedian_scratch'[j] = remedian_scratch[j]
      ]_vars

\* the pass carried out of level 0 and stopped at level 1, whose two
\* values stand out of order, above an untouched level 2
C16_Witness ==
    /\ remedian_base = 3
    /\ remedian_exponent = 3
    /\ ~locked
    /\ Len(pass) = 2
    /\ remedian_scratch[0] = <<>>
    /\ Len(remedian_scratch[1]) = 2
    /\ remedian_scratch[1][1] > remedian_scratch[1][2]
    /\ Len(remedian_scratch[2]) = 1
    /\ pass[1][2] = remedian_scratch[2]

\* total weight of the (value, weight) pairs of wv whose value is below m
RECURSIVE WeightBelow(_, _)
WeightBelow(wv, m) ==
    IF wv = <<>> THEN 0
    ELSE (IF Head(wv)[1] < m THEN Head(wv)[2] ELSE 0) + WeightBelow(Tail(wv), m)

\* total weight of the (value, weight) pairs of wv whose value is above m
RECURSIVE WeightAbove(_, _)
WeightAbove(wv, m) ==
    IF wv = <<>> THEN 0
    ELSE (IF Head(wv)[1] > m THEN Head(wv)[2] ELSE 0) + WeightAbove(Tail(wv), m)

\* C17: weighted-median balance. On an unlocked block with count() >= 1,
\* the value m returned by median() has at most half of count() in weight
\* strictly below it and at most half of count() strictly above it.
C17_WeightedBalance ==
    (~locked /\ count >= 1) =>
        /\ 2 * WeightBelow(weighted_values(0), median[1]) <= count
        /\ 2 * WeightAbove(weighted_values(0), median[1]) <= count

\* total weight of a sequence of (value, weight) pairs
RECURSIVE TotalWeight(_)
TotalWeight(wv) ==
    IF wv = <<>> THEN 0 ELSE Head(wv)[2] + TotalWeight(Tail(wv))

\* sum over the levels from i up of len(scratch[i]) * base^i
RECURSIVE Represented(_)
Represented(i) ==
    IF i >= remedian_exponent THEN 0
    ELSE (IF remedian_scratch[i] = <<>> THEN 0
          ELSE Len(remedian_scratch[i]) * PowUpTo(remedian_base, i, Horizon))
         + Represented(i + 1)

\* C18: digits and weights. In an unlocked block of base >= 2 the level
\* lengths are the base-`base` digits of count(); in a locked block the
\* non-final levels are empty and the final level holds base values; in
\* every state the lengths weighted by base^level add up to count(), and
\* so do the weights the weighted median uses.
C18_Digits ==
    /\ (~locked /\ remedian_base >= 2) =>
          \A i \in DOMAIN remedian_scratch :
              Len(remedian_scratch[i]) =
                  (count \div PowUpTo(remedian_base, i, Horizon)) % remedian_base
    /\ locked =>
          /\ \A i \in DOMAIN remedian_scratch :
                (i # LastLevel) => remedian_scratch[i] = <<>>
          /\ Len(remedian_scratch[LastLevel]) = remedian_base
    /\ Represented(0) = count
    /\ ~locked => TotalWeight(weighted_values(0)) = count

\* 23 values in a block of base 3: the levels hold 2, 1 and 2 values
C18_Witness ==
    /\ remedian_base = 3
    /\ remedian_exponent = 3
    /\ count = 23
    /\ ~locked
    /\ Len(remedian_scratch[0]) = 2
    /\ Len(remedian_scratch[1]) = 1
    /\ Len(remedian_scratch[2]) = 2

Range(s) == {s[k] : k \in 1 .. Len(s)}

\* C19: selection, not synthesis. Every value held in any level, and any
\* value median() returns, is one of the values passed to a call that
\* returned true; the recorded stream has one entry per such call, so a
\* value offered after locking is not among them unless it was accepted
\* before.
C19_Selection ==
    /\ Len(stream) = accepted
    /\ \A i \in DOMAIN remedian_scratch :
          Range(remedian_scratch[i]) \subseteq Range(stream)
    /\ \A k \in 1 .. Len(pass) : \A i \in DOMAIN remedian_scratch :
          Range(pass[k][i]) \subseteq Range(stream)
    /\ Range(median) \subseteq Range(stream)

\* a full block was offered a value it had never accepted, and neither
\* its levels nor its median show that value
C19_Witness ==
    /\ remedian_base = 2
    /\ remedian_exponent = 3
    /\ locked
    /\ fed > accepted
    /\ sample_point # None
    /\ sample_point[1] \notin Range(stream)
    /\ Cardinality(Range(stream)) >= 2

====
